---- MODULE Spec2Model ----
\* Keyboard-backlight dimmer (src/src/main.rs): the input-reader thread, the
\* unbounded channel, the select! loop of main and the HID brightness calls.
EXTENDS Integers, Sequences, FiniteSets, TLC

VARIABLES
    lock,             \* args.lock
    pc,               \* main: "launch" (before line 219), "start" (before line
                      \* 246), "loop" (lines 330-426), "panicked"
    requested_level,  \* main: requested_level
    level,            \* main: level (the spec's current_level)
    dimming,          \* main: dimming (the spec's is_dimming)
    is_active,        \* main: is_active
    ignore_next,      \* main: ignore_next (the spec's ignore_next_count)
    dev,              \* the USB device: kernel driver bound, interface claimed, brightness
    queue,            \* messages in the unbounded channel (s -> r)
    dec,              \* input-reader thread: alive, meta_l_down, meta_r_down, and
                      \* the type, code and value fields of buf
    held,             \* history: which meta keys the records say are held (codes 125, 126)
    sent,             \* history: every message the input-reader thread sent, in order
    consumed,         \* history: every message the loop received, in order
    nrec,             \* history: number of records the input-reader thread has read
    cls,              \* history: the last record read and the result computed for it
    timer,            \* the sleep armed for the current iteration: its duration in
                      \* ms and whether it has completed
    ramp_from,        \* history, kept in SpecDim only: the level the device held
                      \* when dimming last began
    last              \* history: what the most recent step of main did

vars == <<lock, pc, requested_level, level, dimming, is_active, ignore_next,
          dev, queue, dec, held, sent, consumed, nrec, cls, timer, ramp_from, last>>

loopVars == <<pc, requested_level, level, dimming, is_active, ignore_next, timer,
              last>>
chanVars == <<queue, sent, consumed>>
decVars  == <<dec, held, nrec, cls>>

----------------------------------------------------------------------------
\* Program constants

EV_KEY == 1
KEY_LEFT_META == 125
KEY_RIGHT_META == 125
KEY_L == 38

\* The values the input-reader thread sends (result, lines 296-299)
LockCombo == 1
KeyActivity == 0

\* Level used when the startup read fails (line 253)
DefaultLevel == 50
\* Largest level the timeout branch writes (line 415)
WriteLimit == 50
\* Thresholds of the decay step (lines 408, 410)
FastDecayFrom == 10

\* Timeout of the dimming ramp (line 332) and of the parked loop (line 338), ms
DimmingTimeoutMs == 100
IdleTimeoutMs == 3600000
\* args.timeout in ms (line 341), for the default of 5.0 seconds (line 30)
UserTimeoutMs == 5 * 1000

\* u8
U8 == 0 .. 255

----------------------------------------------------------------------------
\* Bounds of the model

\* Records the input device delivers in one run
MaxRecords == 3
\* Levels the device reports in the specifications that also run the
\* input-reader thread or inject transfer faults: 0 .. MaxLevel
MaxLevel == 2

SmallLevels == 0 .. MaxLevel

\* Input records: type, code, value (key-up 0, key-down 1, key-repeat 2).
\* Code 126 is the right meta key of linux/input-event-codes.h; the record of
\* type 0 is a sync marker (EV_SYN).
RecordCodes == {KEY_L, 125, 126}
RecordValues == {0, 1, 2}
SynRecord == [type |-> 0, code |-> 0, value |-> 0]
Records == [type : {EV_KEY}, code : RecordCodes, value : RecordValues] \cup {SynRecord}

\* How much of the 24-byte buffer one read fills (line 276): all of it, or a
\* short read that ends before the type field (bytes 16-17), after it, or
\* after the code field (bytes 18-19)
ReadLengths == {"full", "before_type", "after_type", "after_code"}

\* Which libusb call of one HID call fails ("none": all succeed)
AllFaults == {"none", "query", "detach", "claim", "set_report", "get_report",
              "release", "attach"}
NoFaults == {"none"}

----------------------------------------------------------------------------
\* HID brightness channel (lines 98-212), as functions of the device state

\* take_control: the device afterwards and the returned is_active
TakeControl(d, f) ==
    IF f = "query" THEN [dev |-> d, is_active |-> FALSE]
    ELSE IF d.driver
         THEN IF f = "detach" THEN [dev |-> d, is_active |-> FALSE]
              ELSE [dev |-> [d EXCEPT !.driver = FALSE], is_active |-> TRUE]
         ELSE [dev |-> d, is_active |-> FALSE]

\* release_control
ReleaseControl(d, was_active, f) ==
    LET d1 == IF f = "release" THEN d ELSE [d EXCEPT !.claimed = FALSE]
    IN  IF was_active /\ f # "attach" THEN [d1 EXCEPT !.driver = TRUE] ELSE d1

\* read_brightness_level: [dev: device after, ok: Ok/Err, val: data[4]].
\* The three early returns (lines 148, 163, 174) do not reach release_control.
ReadBrightnessLevel(d, f) ==
    LET tc == TakeControl(d, f)
        d2 == [tc.dev EXCEPT !.claimed = TRUE]
    IN  IF f = "claim" THEN [dev |-> tc.dev, ok |-> FALSE, val |-> 0]
        ELSE IF f \in {"set_report", "get_report"}
             THEN [dev |-> d2, ok |-> FALSE, val |-> 0]
             ELSE [dev |-> ReleaseControl(d2, tc.is_active, f), ok |-> TRUE,
                   val |-> d2.brightness]

\* set_backlight_level: device after. The claim failure returns early (line
\* 195); a failed transfer is printed and release_control still runs.
SetBacklightLevel(d, lv, f) ==
    LET tc == TakeControl(d, f)
        d2 == [tc.dev EXCEPT !.claimed = TRUE]
        d3 == IF f = "set_report" THEN d2 ELSE [d2 EXCEPT !.brightness = lv]
    IN  IF f = "claim" THEN tc.dev
        ELSE ReleaseControl(d3, tc.is_active, f)

\* History record of one HID call: driver and interface before and after, and
\* whether a call inside release_control itself failed
CallRec(fn, f, d, d2) ==
    [fn |-> fn, release_failed |-> f \in {"release", "attach"},
     drv_in |-> d.driver, drv_out |-> d2.driver, claimed_out |-> d2.claimed]

----------------------------------------------------------------------------
\* The decay step (lines 408-412), in u8 arithmetic

Sub8(a, b) == (a - b + 256) % 256

\* Faulty variant: subtracts 2 from every non-zero level
DecayAlwaysTwo(l) == IF l # 0 THEN Sub8(l, 2) ELSE l

DecayStep(l) ==
    IF l >= FastDecayFrom THEN Sub8(l, 2)
    ELSE IF l >= 1 THEN Sub8(l, 1)
    ELSE l

----------------------------------------------------------------------------
\* The state of main as one record, so that each branch of the loop is a
\* function of it. writes, calls, reads and began are history: the levels
\* passed to set_backlight_level, the HID calls made, the results of
\* read_brightness_level and whether line 400 ran, in the current step.

MainState ==
    [requested_level |-> requested_level, level |-> level, dimming |-> dimming,
     is_active |-> is_active, ignore_next |-> ignore_next, dev |-> dev,
     writes |-> <<>>, calls |-> <<>>, reads |-> <<>>, began |-> FALSE]

\* A call of set_backlight_level(handle, lv) in state s
DoWrite(s, lv, f) ==
    LET d2 == SetBacklightLevel(s.dev, lv, f)
    IN  [s EXCEPT !.dev = d2,
                  !.writes = Append(@, lv),
                  !.calls = Append(@, CallRec("set", f, s.dev, d2))]

\* Faulty variant: the swallowed message also wakes the backlight
AbsorbWakes(s) ==
    [s EXCEPT !.ignore_next = s.ignore_next - 1, !.is_active = TRUE, !.dimming = FALSE]

\* Lines 354-355: a pending ignore_next swallows the message
AbsorbBranch(s) == [s EXCEPT !.ignore_next = s.ignore_next - 1]

\* Faulty variant: the lock combination does not arm ignore_next
LockNoIgnore(s) == [s EXCEPT !.dimming = TRUE]

\* Lines 359-363: lock screen combination
LockBranch(s) == [s EXCEPT !.ignore_next = 1, !.dimming = TRUE]

\* Faulty variant: key activity leaves the dimming flag alone
ActivityKeepsDimming(s, f) ==
    LET s1 == [s EXCEPT !.is_active = TRUE]
    IN  IF s1.level # s1.requested_level
        THEN DoWrite([s1 EXCEPT !.level = s1.requested_level], s1.requested_level, f)
        ELSE s1

\* Lines 365-372: key activity
ActivityBranch(s, f) ==
    LET s1 == [s EXCEPT !.is_active = TRUE, !.dimming = FALSE]
    IN  IF s1.level # s1.requested_level
        THEN DoWrite([s1 EXCEPT !.level = s1.requested_level], s1.requested_level, f)
        ELSE s1

\* Faulty variant: a failed re-read leaves requested_level as it was
StartDimmingKeepsRequested(s, f) ==
    LET rd == ReadBrightnessLevel(s.dev, f)
        s1 == [s EXCEPT !.dev = rd.dev,
                        !.reads = Append(@, IF rd.ok THEN rd.val ELSE -1),
                        !.calls = Append(@, CallRec("read", f, s.dev, rd.dev))]
        s2 == IF rd.ok
              THEN [s1 EXCEPT !.requested_level = rd.val, !.level = rd.val]
              ELSE s1
    IN  IF s2.requested_level > 0
        THEN [s2 EXCEPT !.dimming = TRUE, !.began = TRUE]
        ELSE s2

\* Lines 384-402: the re-read when dimming starts
StartDimming(s, f) ==
    LET rd == ReadBrightnessLevel(s.dev, f)
        s1 == [s EXCEPT !.dev = rd.dev,
                        !.reads = Append(@, IF rd.ok THEN rd.val ELSE -1),
                        !.calls = Append(@, CallRec("read", f, s.dev, rd.dev))]
        s2 == IF rd.ok
              THEN [s1 EXCEPT !.requested_level = rd.val, !.level = rd.val]
              ELSE [s1 EXCEPT !.requested_level = s1.level]
    IN  IF s2.requested_level > 0
        THEN [s2 EXCEPT !.dimming = TRUE, !.began = TRUE]
        ELSE s2

\* Faulty variant: dimming is not switched off when level zero is reached
UpdateKeepsDimming(s, f) ==
    IF s.level # 0
    THEN LET s1 == [s EXCEPT !.level = DecayStep(s.level)]
         IN  IF s1.level <= WriteLimit THEN DoWrite(s1, s1.level, f) ELSE s1
    ELSE s

\* Faulty variant: level zero is written again
UpdateWritesAtZero(s, f) ==
    IF s.level # 0
    THEN LET s1 == [s EXCEPT !.level = DecayStep(s.level)]
             s2 == IF s1.level <= WriteLimit THEN DoWrite(s1, s1.level, f) ELSE s1
         IN  IF s2.level = 0 THEN [s2 EXCEPT !.dimming = FALSE] ELSE s2
    ELSE DoWrite(s, s.level, f)

\* Lines 404-423: the level update
UpdateLevel(s, f) ==
    IF s.level # 0
    THEN LET s1 == [s EXCEPT !.level = DecayStep(s.level)]
             s2 == IF s1.level <= WriteLimit THEN DoWrite(s1, s1.level, f) ELSE s1
         IN  IF s2.level = 0 THEN [s2 EXCEPT !.dimming = FALSE] ELSE s2
    ELSE s

\* Lines 378-424: the timeout branch
TimeoutBranch(s, f1, f2) ==
    LET s1 == [s EXCEPT !.is_active = FALSE]
        s2 == IF ~s1.dimming THEN StartDimming(s1, f1) ELSE s1
    IN  UpdateLevel(s2, f2)

\* Lines 246-255 and 315-327: startup read, first write, initial flags
StartupBranch(s, f1, f2) ==
    LET rd == ReadBrightnessLevel(s.dev, f1)
        rl == IF rd.ok THEN rd.val ELSE DefaultLevel
        s1 == [s EXCEPT !.dev = rd.dev,
                        !.reads = Append(@, IF rd.ok THEN rd.val ELSE -1),
                        !.calls = Append(@, CallRec("read", f1, s.dev, rd.dev)),
                        !.requested_level = rl, !.level = rl]
    IN  [DoWrite(s1, rl, f2) EXCEPT !.dimming = FALSE, !.is_active = TRUE,
                                    !.ignore_next = 0]

\* Faulty variant: is_active is looked at before dimming
TimeoutActiveFirst(dim, active) ==
    IF active THEN UserTimeoutMs
    ELSE IF dim THEN DimmingTimeoutMs ELSE IdleTimeoutMs

\* Lines 331-343: timeout_time for the flags at the top of an iteration
TimeoutTime(dim, active) ==
    IF ~dim
    THEN IF ~active THEN IdleTimeoutMs ELSE UserTimeoutMs
    ELSE DimmingTimeoutMs

\* Faulty variant: the timer armed before is kept running
KeepTimer(t, dim, active) ==
    [ms |-> TimeoutTime(dim, active), done |-> t.done]

\* Lines 345-347 with create_timeout (lines 38-41): every iteration spawns a
\* new sleep of timeout_time and awaits it; the sleep awaited before (t) is
\* dropped by select!
ArmTimer(t, dim, active) ==
    [ms |-> TimeoutTime(dim, active), done |-> FALSE]

\* The variables of main after a step that ends in state r
CommitState(r, branch, some, msg) ==
    /\ requested_level' = r.requested_level
    /\ level' = r.level
    /\ dimming' = r.dimming
    /\ is_active' = r.is_active
    /\ ignore_next' = r.ignore_next
    /\ dev' = r.dev
    /\ timer' = ArmTimer(timer, r.dimming, r.is_active)
    /\ last' = [branch |-> branch, some |-> some, msg |-> msg, writes |-> r.writes,
                calls |-> r.calls, reads |-> r.reads, began |-> r.began]

\* The same, with the end state computed once
Commit(result, branch, some, msg) ==
    \E r \in {result} : CommitState(r, branch, some, msg)

\* Lines 352-375: the receive branch of select!, for the value recv returned
\* (some = FALSE: None, the channel is closed and empty)
OnRecv(some, msg, f) ==
    IF ignore_next > 0
    THEN Commit(AbsorbBranch(MainState), "absorb", some, msg) /\ pc' = pc
    ELSE IF lock /\ ~some
    THEN \* lock.unwrap() on None panics main
         /\ pc' = "panicked"
         /\ Commit(MainState, "panic", some, msg)
    ELSE IF lock /\ msg = LockCombo
    THEN Commit(LockBranch(MainState), "lock", some, msg) /\ pc' = pc
    ELSE Commit(ActivityBranch(MainState, f), "activity", some, msg) /\ pc' = pc

\* Lines 378-424 as a step of main
OnTimeout(f1, f2) ==
    /\ Commit(TimeoutBranch(MainState, f1, f2), "timeout", FALSE, 0)
    /\ pc' = pc

----------------------------------------------------------------------------
\* The channel (line 258: mpsc::unbounded_channel)

\* s.send(result), line 303: never refused for lack of room
ChanCanSend(q) == TRUE
ChanSend(q, m) == Append(q, m)
\* Faulty variant: recv hands out the newest message
ChanRecvNewest(q) == [msg |-> q[Len(q)], rest |-> SubSeq(q, 1, Len(q) - 1)]
\* r.recv(), line 346: the oldest message and the rest
ChanRecv(q) == [msg |-> Head(q), rest |-> Tail(q)]

----------------------------------------------------------------------------
\* The input-reader thread (lines 260-309)

\* Lines 287-293: the meta key flags after a record
LatchAfter(d, rec) ==
    IF rec.type = EV_KEY
    THEN IF rec.code = KEY_LEFT_META
         THEN [d EXCEPT !.meta_l_down = rec.value > 0]
         ELSE IF rec.code = KEY_RIGHT_META
              THEN [d EXCEPT !.meta_r_down = rec.value > 0]
              ELSE d
    ELSE d

\* Lines 296-299: result
Classify(d, rec) ==
    IF rec.type = EV_KEY /\ rec.value = 0 /\ rec.code = KEY_L
       /\ (d.meta_l_down \/ d.meta_r_down)
    THEN LockCombo
    ELSE KeyActivity

\* Faulty variant: every record is sent
ForwardsAll(rec) == rec.type \in {0, EV_KEY}

\* Line 302: only key records are sent
Forwarded(rec) == rec.type = EV_KEY

\* Lines 276-284: the fields parsed from the buffer after a read of record
\* rec that filled the part n of the buffer; the rest keeps the bytes of the
\* read before
ReadInto(buf, rec, n) ==
    [type  |-> IF n = "before_type" THEN buf.type ELSE rec.type,
     code  |-> IF n \in {"full", "after_code"} THEN rec.code ELSE buf.code,
     value |-> IF n = "full" THEN rec.value ELSE buf.value]

\* History: the meta keys held according to the records read so far
\* (left meta is code 125, right meta is code 126)
HeldAfter(h, rec) ==
    IF rec.type = EV_KEY /\ rec.code = 125 THEN [h EXCEPT !.l = rec.value > 0]
    ELSE IF rec.type = EV_KEY /\ rec.code = 126 THEN [h EXCEPT !.r = rec.value > 0]
    ELSE h

\* One turn of the thread's loop with a successful read (lines 276-307).
\* The thread is spawned at line 260; its turns are taken once main has
\* reached its loop (the first write at line 317 does not touch the channel).
DecoderStep ==
    /\ pc = "loop"
    /\ dec.alive
    /\ nrec < MaxRecords
    /\ \E got \in Records, n \in ReadLengths :
          LET rec == ReadInto(dec.buf, got, n)
              d2 == [LatchAfter(dec, rec) EXCEPT !.buf = rec]
              result == Classify(d2, rec)
          IN  /\ dec' = d2
              /\ held' = HeldAfter(held, rec)
              /\ nrec' = nrec + 1
              /\ cls' = [valid |-> TRUE, rec |-> rec, result |-> result]
              /\ IF Forwarded(rec)
                 THEN /\ ChanCanSend(queue)
                      /\ queue' = ChanSend(queue, result)
                      /\ sent' = Append(sent, result)
                 ELSE UNCHANGED <<queue, sent>>
    /\ UNCHANGED <<lock, loopVars, ramp_from, dev, consumed>>

\* file.read fails (line 276): expect panics the thread, which drops the
\* sender s; main is a different thread and keeps running
DecoderFail ==
    /\ pc = "loop"
    /\ dec.alive
    /\ dec' = [dec EXCEPT !.alive = FALSE]
    /\ UNCHANGED <<lock, loopVars, ramp_from, dev, chanVars, held, nrec, cls>>

----------------------------------------------------------------------------
\* Steps of main

\* Lines 246-327
StartupWith(F) ==
    /\ pc = "start"
    /\ \E f1 \in F, f2 \in F :
          Commit(StartupBranch(MainState, f1, f2), "startup", FALSE, 0)
    /\ pc' = "loop"
    /\ UNCHANGED <<lock, chanVars, decVars>>

\* select! takes the receive branch with a message (lines 352-375)
RecvWith(F) ==
    /\ pc = "loop"
    /\ queue # <<>>
    /\ LET got == ChanRecv(queue)
       IN  /\ queue' = got.rest
           /\ consumed' = Append(consumed, got.msg)
           /\ \E f \in (IF level = requested_level THEN NoFaults ELSE F) :
                 OnRecv(TRUE, got.msg, f)
    /\ UNCHANGED <<lock, sent, decVars>>

\* select! takes the receive branch with None: the sender is dropped and the
\* channel is empty
RecvClosedWith(F) ==
    /\ pc = "loop"
    /\ queue = <<>>
    /\ ~dec.alive
    /\ \E f \in (IF level = requested_level THEN NoFaults ELSE F) :
          OnRecv(FALSE, 0, f)
    /\ UNCHANGED <<lock, chanVars, decVars>>

\* select! takes the timeout branch (lines 378-424); a message may be pending
TimeoutWith(F) ==
    /\ pc = "loop"
    /\ timer.done
    /\ \E f1 \in (IF dimming THEN NoFaults ELSE F), f2 \in F : OnTimeout(f1, f2)
    /\ UNCHANGED <<lock, chanVars, decVars>>

\* A message sent by the input-reader thread into the empty channel and
\* received by the loop at once (lines 303 and 352-375 in one step); the
\* histories of the channel are not kept
SignalWith(F) ==
    /\ pc = "loop"
    /\ \E m \in {KeyActivity, LockCombo} :
          \E f \in (IF level = requested_level THEN NoFaults ELSE F) :
             OnRecv(TRUE, m, f)
    /\ UNCHANGED <<lock, chanVars, decVars>>

\* The sleep of the current iteration completes (line 40)
TimerFires ==
    /\ pc = "loop"
    /\ ~timer.done
    /\ timer' = [timer EXCEPT !.done = TRUE]
    /\ UNCHANGED <<lock, pc, requested_level, level, dimming, is_active,
                   ignore_next, ramp_from, last, dev, chanVars, decVars>>

\* The user changes the brightness with the keyboard's own keys (line 385)
UserChange(L) ==
    /\ pc = "loop"
    /\ \E v \in L : v # dev.brightness /\ dev' = [dev EXCEPT !.brightness = v]
    /\ UNCHANGED <<lock, loopVars, ramp_from, chanVars, decVars>>

\* The state before main runs; lock and dev are set by Launch
Init ==
    /\ lock = FALSE
    /\ pc = "launch"
    /\ requested_level = 0
    /\ level = 0
    /\ dimming = FALSE
    /\ is_active = FALSE
    /\ ignore_next = 0
    /\ dev = [driver |-> FALSE, claimed |-> FALSE, brightness |-> 0]
    /\ queue = <<>>
    /\ dec = [alive |-> TRUE, meta_l_down |-> FALSE, meta_r_down |-> FALSE,
              buf |-> SynRecord]
    /\ held = [l |-> FALSE, r |-> FALSE]
    /\ sent = <<>>
    /\ consumed = <<>>
    /\ nrec = 0
    /\ cls = [valid |-> FALSE, rec |-> SynRecord, result |-> KeyActivity]
    /\ timer = [ms |-> 0, done |-> FALSE]
    /\ ramp_from = -1
    /\ last = [branch |-> "init", some |-> FALSE, msg |-> 0, writes |-> <<>>,
               calls |-> <<>>, reads |-> <<>>, began |-> FALSE]

\* Lines 219-243: the command line gives the lock flag, and the device is
\* opened as it is found: kernel driver bound or not, at some brightness in L
LaunchWith(L) ==
    /\ pc = "launch"
    /\ pc' = "start"
    /\ lock' \in BOOLEAN
    /\ dev' \in [driver : BOOLEAN, claimed : {FALSE}, brightness : L]
    /\ UNCHANGED <<requested_level, level, dimming, is_active, ignore_next, timer,
                   ramp_from, last, chanVars, decVars>>

----------------------------------------------------------------------------
\* Spec: both threads and the channel; every transfer succeeds

Launch == LaunchWith(SmallLevels)
Startup == StartupWith(NoFaults) /\ UNCHANGED ramp_from
Recv == RecvWith(NoFaults) /\ UNCHANGED ramp_from
RecvClosed == RecvClosedWith(NoFaults) /\ UNCHANGED ramp_from
Timeout == TimeoutWith(NoFaults) /\ UNCHANGED ramp_from
UserChangeSmall == UserChange(SmallLevels)

Next ==
    \/ Launch
    \/ Startup
    \/ DecoderStep
    \/ DecoderFail
    \/ Recv
    \/ RecvClosed
    \/ TimerFires
    \/ Timeout
    \/ UserChangeSmall

Spec == Init /\ [][Next]_vars

----------------------------------------------------------------------------
\* SpecHid: main alone, any one libusb call of each HID call may fail

StartupHid == StartupWith(AllFaults) /\ UNCHANGED ramp_from
SignalHid == SignalWith(AllFaults) /\ UNCHANGED ramp_from
TimeoutHid == TimeoutWith(AllFaults) /\ UNCHANGED ramp_from

NextHid ==
    \/ Launch
    \/ StartupHid
    \/ SignalHid
    \/ TimerFires
    \/ TimeoutHid

SpecHid == Init /\ [][NextHid]_vars

----------------------------------------------------------------------------
\* SpecDim: main alone over every u8 level the device can report; every
\* transfer succeeds

LaunchDim == LaunchWith(U8)

\* The history ramp_from after a step of main: the level the device holds
\* when the step sets the dimming flag (line 400) or, with the flag off
\* before, takes the lock branch (line 363)
RampFrom ==
    IF last'.began \/ (last'.branch = "lock" /\ ~dimming)
    THEN dev.brightness ELSE ramp_from

SignalDim == SignalWith(NoFaults) /\ ramp_from' = RampFrom
TimeoutDim == TimeoutWith(NoFaults) /\ ramp_from' = RampFrom

NextDim ==
    \/ LaunchDim
    \/ Startup
    \/ SignalDim
    \/ TimerFires
    \/ TimeoutDim

SpecDim == Init /\ [][NextDim]_vars

\* SpecQuiet: no key is ever pressed, the device reports a level the
\* timeout branch would write (0 .. 50), and main keeps running: startup
\* completes and a timeout that is due fires
LaunchQuiet == LaunchWith(0 .. WriteLimit)

NextQuiet ==
    \/ LaunchQuiet
    \/ Startup
    \/ TimerFires
    \/ Timeout

SpecQuiet ==
    Init /\ [][NextQuiet]_vars
         /\ WF_vars(LaunchQuiet) /\ WF_vars(Startup) /\ WF_vars(TimerFires)
         /\ WF_vars(Timeout)

----------------------------------------------------------------------------
\* Properties

\* The step is an iteration of main's loop (or its startup), not a step of the
\* input-reader thread, of the sleep or of the user: those leave main's
\* variables alone and complete the sleep, read a record or change the device
MainStep ==
    ~ /\ UNCHANGED <<pc, requested_level, level, dimming, is_active,
                     ignore_next, last>>
      /\ \/ timer'.done
         \/ UNCHANGED timer /\ (decVars' # decVars \/ dev' # dev)

\* The step just taken received a message (Some) in the receive branch
GotSignal ==
    MainStep /\ last'.some /\ last'.branch \in {"absorb", "lock", "activity"}

\* The step just taken is the timeout branch
TookTimeout == MainStep /\ last'.branch = "timeout"

\* The level the decay step of the timeout just taken started from: the
\* re-read value when the step re-read the device, else the old level
DecayedFrom ==
    IF last'.reads # <<>> /\ last'.reads[1] >= 0 THEN last'.reads[1] ELSE level

\* C1: a signal received with ignore_next = 0 that is not a LockCombo under
\* the lock feature leaves is_active true, dimming false and level equal to
\* requested_level; requested_level is written exactly when level differed
\* from it, in one write.
C1_ActivityRestores ==
    [][(GotSignal /\ ignore_next = 0 /\ ~(lock /\ last'.msg = LockCombo))
         => /\ is_active' /\ ~dimming'
            /\ level' = requested_level'
            /\ requested_level' = requested_level
            /\ last'.writes = IF level # requested_level
                              THEN <<requested_level>> ELSE <<>>
            /\ last'.reads = <<>>]_vars

\* A key press during the ramp restored the level with one write
C1_Witness ==
    /\ last.branch = "activity" /\ last.some /\ last.msg = KeyActivity
    /\ last.writes = <<50>> /\ level = 50 /\ is_active /\ ~dimming
    /\ dev.brightness = 50

\* C3: one decay step from a level L in 1..50 yields L-2 when L >= 10 and
\* L-1 when L <= 9; the result is not below 0 and is smaller than L.
C3_DecayStep ==
    [][(TookTimeout /\ DecayedFrom \in 1 .. 50)
         => /\ level' = IF DecayedFrom >= 10 THEN DecayedFrom - 2 ELSE DecayedFrom - 1
            /\ level' >= 0
            /\ level' < DecayedFrom]_vars

\* The step from 1 to 0, written to the device
C3_Witness ==
    /\ last.branch = "timeout" /\ last.reads = <<>> /\ last.writes = <<0>>
    /\ level = 0 /\ requested_level = 11

\* C4: with the lock feature on, a LockCombo received with ignore_next = 0
\* sets ignore_next to 1 and dimming to true in the receive branch itself,
\* with no HID call and requested_level unchanged.
C4_LockCombo ==
    [][(GotSignal /\ lock /\ last'.msg = LockCombo /\ ignore_next = 0)
         => /\ last'.branch = "lock"
            /\ ignore_next' = 1
            /\ dimming'
            /\ last'.writes = <<>> /\ last'.calls = <<>>
            /\ requested_level' = requested_level]_vars

\* The lock combination took the machine from Active straight to dimming
C4_Witness ==
    /\ last.branch = "lock" /\ last.msg = LockCombo /\ lock
    /\ dimming /\ is_active /\ ignore_next = 1 /\ level = 50

\* C5: a signal received with ignore_next > 0 only decrements ignore_next
\* (no other variable of main changes, no HID call); the lock combination
\* sets the count to 1, so one signal is swallowed and the count is 0 for
\* the signal after it.
C5_AbsorbOne ==
    [][/\ (GotSignal /\ ignore_next > 0)
            => /\ last'.branch = "absorb"
               /\ ignore_next' = ignore_next - 1
               /\ ignore_next' = 0
               /\ UNCHANGED <<is_active, dimming, level, requested_level, dev>>
               /\ last'.writes = <<>> /\ last'.calls = <<>> /\ last'.reads = <<>>
       /\ (last'.branch = "lock") => ignore_next' = 1]_vars

\* A signal was swallowed while the ramp started by the lock combination ran
C5_Witness ==
    /\ last.branch = "absorb" /\ last.some /\ ignore_next = 0
    /\ dimming /\ ~is_active /\ level < requested_level /\ level > 0

\* The machine is Idle with the backlight off
IdleAtZero == pc = "loop" /\ ~is_active /\ ~dimming /\ level = 0

\* C2: with no signals and no transfer faults, when the re-read of the first
\* timeout finds a level L in 1..50, that timeout sets the dimming flag (line
\* 400) and applies the first decay step; every timeout of the ramp writes
\* one level, one decay step below the previous one, and dimming is on
\* afterwards exactly while the level is above 0; the machine then reaches
\* Idle at level 0 and stays there.
C2_RampToIdle ==
    /\ [][(TookTimeout /\ DecayedFrom \in 1 .. 50)
            => /\ is_active => (last'.began /\ last'.reads = <<DecayedFrom>>)
               /\ level' = IF DecayedFrom >= 10 THEN DecayedFrom - 2
                                                ELSE DecayedFrom - 1
               /\ last'.writes = <<level'>>
               /\ dev'.brightness = level'
               /\ dimming' = (level' > 0)
               /\ ~is_active']_vars
    /\ (pc = "loop" /\ is_active /\ dev.brightness \in 1 .. 50) ~> [] IdleAtZero

\* The ramp that started at 50 has written 0 and left the machine Idle
C2_Witness ==
    /\ IdleAtZero /\ last.branch = "timeout" /\ last.writes = <<0>>
    /\ last.reads = <<>> /\ requested_level = 50 /\ dev.brightness = 0

\* C6: every HID call whose release_control calls succeed returns with the
\* kernel driver bound exactly when it was bound on entry, and with the
\* interface released.
C6_DriverRestored ==
    \A i \in 1 .. Len(last.calls) :
        ~last.calls[i].release_failed
            => /\ last.calls[i].drv_out = last.calls[i].drv_in
               /\ ~last.calls[i].claimed_out

\* C7: once the read of the input-reader thread has failed, main completes
\* no further iteration (its only possible step is the one that ends the
\* process).
C7_ReadFailureIsFatal ==
    [][~dec.alive
         => (last'.branch = "panic"
             \/ UNCHANGED <<pc, requested_level, level, dimming, is_active,
                            ignore_next, last>>)]_vars

\* C8: what the loop has received followed by what is still in the channel is
\* exactly what the input-reader thread sent, in order; and the thread can
\* always take its next turn, whatever the channel holds.
C8_Fifo ==
    /\ consumed \o queue = sent
    /\ (pc = "loop" /\ dec.alive /\ nrec < MaxRecords) => ENABLED DecoderStep

\* A timeout fired with two messages pending, after one was received
C8_Witness ==
    /\ last.branch = "timeout" /\ Len(queue) = 2 /\ Len(consumed) = 1
    /\ queue[1] # queue[2]

\* C9: a key record is classified LockCombo exactly when it is a release of
\* KEY_L while the left meta key (code 125) or the right meta key (code 126)
\* is held; every other key record is classified KeyActivity.
C9_Classification ==
    (cls.valid /\ cls.rec.type = EV_KEY)
        => /\ cls.result \in {LockCombo, KeyActivity}
           /\ (cls.result = LockCombo)
                <=> (cls.rec.code = KEY_L /\ cls.rec.value = 0 /\ (held.l \/ held.r))

\* C10: every level passed to set_backlight_level is in 0..50.
C10_WritesInRange ==
    \A i \in 1 .. Len(last.writes) : last.writes[i] \in 0 .. 50

\* C11: level always equals the level last passed to the device by the
\* program: a step of main that writes leaves level at the level written
\* last, and a step that changes level writes, for every level in 0..255 the
\* device may report.
C11_LevelIsLastWritten ==
    [][MainStep
         => /\ last'.writes # <<>>
                 => last'.writes[Len(last'.writes)] = level'
            /\ level' # level => last'.writes # <<>>]_vars

\* C12: at the wait point of the loop is_active and dimming are never both
\* true (the pair is Active, Dimming or Idle), and the loop is entered Active.
C12_ThreeStates ==
    pc = "loop"
        => /\ ~(is_active /\ dimming)
           /\ last.branch = "startup" => (is_active /\ ~dimming)

\* C13: a timeout taken Idle at level 0 while the device reports 0 makes the
\* re-read and nothing else: one HID call, no write, and is_active, dimming,
\* level and ignore_next keep their values.
C13_IdleTimeoutIdempotent ==
    [][(TookTimeout /\ ~is_active /\ ~dimming /\ level = 0 /\ dev.brightness = 0)
         => /\ last'.reads = <<0>>
            /\ last'.writes = <<>>
            /\ Len(last'.calls) = 1
            /\ UNCHANGED <<is_active, dimming, level, ignore_next>>
            /\ dev'.brightness = 0]_vars

\* A parked timeout fired after the ramp from 50 had reached 0
C13_Witness ==
    /\ last.branch = "timeout" /\ last.reads = <<0>> /\ last.writes = <<>>
    /\ ~is_active /\ ~dimming /\ level = 0 /\ ramp_from = 50
    /\ timer = [ms |-> IdleTimeoutMs, done |-> FALSE]

\* C14: a step of main that turns dimming on reads the device and leaves
\* requested_level at the level read.
C14_DimmingStartsWithRead ==
    [][(MainStep /\ ~dimming /\ dimming')
         => /\ last'.reads # <<>>
            /\ last'.reads[1] >= 0
            /\ requested_level' = last'.reads[1]]_vars

\* C15: with every transfer succeeding and nobody else changing the device,
\* when dimming last began at a device level L in 1..50, a signal handled by
\* the activity branch leaves the device at L, whatever timeouts fired since.
C15_ActivityRestoresRampStart ==
    (pc = "loop" /\ last.branch = "activity" /\ last.some /\ ramp_from \in 1 .. 50)
        => dev.brightness = ramp_from

\* C16: the sleep armed for an iteration lasts 100 ms when dimming is true
\* at the top of the iteration, whatever is_active is, the user's timeout
\* when is_active is true and dimming false, and 3600000 ms when both are
\* false.
C16_TimeoutOfState ==
    pc = "loop"
        => timer.ms = IF dimming THEN 100
                      ELSE IF is_active THEN UserTimeoutMs
                      ELSE 3600000

\* The loop waits 100 ms with dimming and is_active both true
C16_Witness ==
    pc = "loop" /\ dimming /\ is_active /\ timer.ms = 100 /\ timer.done

\* C17: every iteration arms a new sleep, not yet completed, and the timeout
\* branch is taken only when the sleep armed for that iteration has
\* completed; a timeout taken Active follows a completed sleep of the user's
\* timeout, armed after the signal handled last (absorbed or not).
C17_TimerRearmed ==
    [][(MainStep /\ pc' = "loop")
         => /\ ~timer'.done
            /\ TookTimeout => timer.done
            /\ (TookTimeout /\ is_active /\ ~dimming)
                 => timer = [ms |-> UserTimeoutMs, done |-> TRUE]]_vars

\* The loop left Active by a timeout after it had handled one signal, with
\* another one pending
C17_Witness ==
    /\ last.branch = "timeout" /\ last.began /\ ~timer.done
    /\ ~is_active /\ dimming /\ Len(consumed) = 1 /\ queue # <<>>

\* C18: a turn of the input-reader thread sends one message, the result
\* computed for the record, when the record parsed has type EV_KEY (whatever
\* its value: up, down or repeat), and sends nothing and leaves both meta
\* flags alone when the record has another type.
C18_OneSignalPerKeyRecord ==
    [][nrec' # nrec
         => IF cls'.rec.type = EV_KEY
            THEN /\ sent' = Append(sent, cls'.result)
                 /\ queue' = Append(queue, cls'.result)
            ELSE /\ UNCHANGED <<sent, queue>>
                 /\ dec'.meta_l_down = dec.meta_l_down
                 /\ dec'.meta_r_down = dec.meta_r_down]_vars

\* A sync record read while a meta key was down, after one key record
C18_Witness ==
    /\ nrec = 2 /\ Len(sent) = 1 /\ cls.valid /\ cls.rec = SynRecord
    /\ dec.meta_l_down

\* The level one decay step below b (lines 408-412)
OneStepBelow(b) == IF b >= 10 THEN b - 2 ELSE IF b >= 1 THEN b - 1 ELSE 0

\* C19: whichever libusb call of a HID call fails, the loop goes on, and the
\* variables of main after the step are those of a step whose transfers
\* succeeded: the activity branch leaves level at requested_level; the
\* timeout branch decays from the level re-read, or from the old level when
\* the re-read failed (requested_level is then set to that level), and sets
\* the flags from these values.
C19_TransferFailuresSwallowed ==
    [][(MainStep /\ pc = "loop")
         => /\ pc' = "loop"
            /\ last'.branch = "activity"
                 => /\ level' = requested_level
                    /\ requested_level' = requested_level
                    /\ is_active' /\ ~dimming'
            /\ last'.branch = "timeout"
                 => /\ requested_level' = IF dimming THEN requested_level
                                          ELSE DecayedFrom
                    /\ level' = OneStepBelow(DecayedFrom)
                    /\ dimming' = /\ (dimming \/ requested_level' > 0)
                                  /\ ~(DecayedFrom # 0 /\ level' = 0)
                    /\ ~is_active'
                    /\ last'.writes = IF DecayedFrom # 0 /\ level' <= 50
                                      THEN <<level'>> ELSE <<>>
            /\ (last'.branch = "timeout" /\ last'.reads = <<-1>>)
                 => /\ requested_level' = level
                    /\ level' = OneStepBelow(level)]_vars

\* A timeout whose re-read failed and whose write failed as well: the device
\* is still at 2, the loop is at 1 and dimming
C19_Witness ==
    /\ pc = "loop" /\ last.branch = "timeout" /\ last.reads = <<-1>>
    /\ last.writes = <<1>> /\ level = 1 /\ requested_level = 2
    /\ dev.brightness = 2 /\ dimming /\ ~is_active

\* C20: at the wait point of the loop, dimming implies level > 0, with and
\* without the lock feature.
C20_DimmingAboveZero ==
    (pc = "loop" /\ dimming) => level > 0

====
